---- MODULE Spec2Model ----
(***************************************************************************)
(* The two orchestration scripts of stagehand-python-examples as one state *)
(* machine: example.py main() (labels E<line>) and agent_example.py main() *)
(* (labels A<line>).  A label names the source line of the statement that  *)
(* control is about to execute.  Every call on the Stagehand client, a     *)
(* page, the browser context, the CDP client or the LLM client is a        *)
(* collaborator operation: it is issued, and later either returns a value  *)
(* (drawn from a small set) or raises.  Python's try/except/finally of     *)
(* example.py lines 65-222 is modelled by Handler and by the statements    *)
(* E213, E216, E220, E221, E222.                                           *)
(***************************************************************************)
EXTENDS Integers, Sequences, FiniteSets

VARIABLES
    script,         \* "example" | "agent": which main() runs
    globals,        \* names bound in the module namespace when main() runs
    llm,            \* stagehand.llm is not None (example.py line 70, 153)
    pc,             \* label of the statement control is at, or "end"
    waiting,        \* control is suspended on the operation at pc
    outstanding,    \* labels of the operations issued and not yet completed
    trace,          \* every event so far: [at, ev, arg]
    printed,        \* the console messages written so far
    pageVer,        \* per page: number of page-mutating operations issued
    tree,           \* the variable tree (lines 78, 146)
    treeUses,       \* every read of tree: where, and how fresh it was
    extract_result, \* line 98
    companies_data, \* lines 106, 110
    response,       \* line 157
    action,         \* line 177
    result,         \* line 182
    object_info,    \* line 183
    xpath,          \* line 186
    exc,            \* the exception being handled or propagated, or None
    thrown,         \* every exception raised so far, in order
    bodyExc,        \* the exception the catch-all of line 212 received
    outcome,        \* "running" | "returned" | "raised": how main() ended
    raised,         \* the exception that left main()
    context         \* its __context__: the exception it replaced

vars == << script, globals, llm, pc, waiting, outstanding, trace, printed,
           pageVer, tree, treeUses, extract_result, companies_data, response,
           action, result, object_info, xpath, exc, thrown, bodyExc, outcome,
           raised, context >>

----------------------------------------------------------------------------
(* Bounds of the inputs the collaborators may return.                      *)
MaxCompanies == 2
MaxNodeId == 2
MaxArgs == 1

None == [type |-> "NoneType"]

----------------------------------------------------------------------------
(* The statements of the two scripts.                                      *)

ExampleLabels ==
    { "E67", "E73", "E75", "E78", "E85", "E89", "E98", "E110", "E115", "E124",
      "E127", "E135", "E136", "E141", "E142", "E146", "E150", "E153", "E168",
      "E173", "E157", "E177", "E182", "E183", "E186a", "E186b", "E186c",
      "E190", "E191", "E192a", "E192b", "E193", "E195", "E199", "E204",
      "E205", "E207", "E210", "E213", "E216", "E220", "E221", "E222" }

AgentLabels == { "A64", "A86", "A90", "A93", "A97", "A98" }

\* The collaborator operation a statement performs ("" for a local statement).
OpName(l) ==
    CASE l \in {"E67", "A64"}           -> "init"
      [] l \in {"E73", "E142", "A86"}   -> "goto"
      [] l \in {"E78", "E146"}          -> "get_accessibility_tree"
      [] l \in {"E85", "E150", "E204"}  -> "act"
      [] l \in {"E89", "E199"}          -> "observe"
      [] l = "E98"                      -> "extract"
      [] l \in {"E135", "E191"}         -> "click"
      [] l = "E136"                     -> "wait_for_load_state"
      [] l = "E141"                     -> "new_page"
      [] l = "E157"                     -> "create_response"
      [] l = "E182"                     -> "send_cdp"
      [] l = "E186a"                    -> "get_cdp_client"
      [] l = "E186c"                    -> "get_xpath_by_resolved_object_id"
      [] l = "E192b"                    -> "fill"
      [] l = "A90"                      -> "agent.execute"
      [] l \in {"E221", "A97"}          -> "close"
      [] OTHER                          -> ""

\* What the operation is issued against.
Target(l) ==
    CASE l \in {"E67", "E221", "A64", "A90", "A97"}               -> "session"
      [] l \in {"E73", "E78", "E85", "E89", "E98", "E135", "E136", "A86"}
                                                                  -> "page"
      [] l = "E141"                                               -> "context"
      [] l \in {"E142", "E146", "E150", "E182", "E186a", "E186c", "E191",
                "E192b", "E199", "E204"}                          -> "new_page"
      [] l = "E157"                                               -> "llm"
      [] OTHER                                                    -> ""

IsOp(l) == OpName(l) # ""

\* Operations that change the page they are issued against.
Mutates(l) == OpName(l) \in {"act", "click", "fill", "goto"}

\* Every operation is awaited (or, for create_response, called synchronously),
\* so the script does not run on until the operation completes.
\* (variant: the awaits are dropped, only the synchronous call still blocks)
BlocksNotAwaited(l) == OpName(l) = "create_response"
Blocks(l) == IsOp(l)

\* The statement that follows l in example.py when l completes normally and
\* does not branch.
ExampleSucc(l) ==
    CASE l = "E67" -> "E73"     [] l = "E73" -> "E75"     [] l = "E75" -> "E78"
      [] l = "E78" -> "E85"     [] l = "E85" -> "E89"     [] l = "E89" -> "E98"
      [] l = "E98" -> "E110"    [] l = "E110" -> "E115"   [] l = "E115" -> "E127"
      [] l = "E124" -> "E127"   [] l = "E127" -> "E135"   [] l = "E135" -> "E136"
      [] l = "E136" -> "E141"   [] l = "E141" -> "E142"   [] l = "E142" -> "E146"
      [] l = "E146" -> "E150"   [] l = "E150" -> "E153"   [] l = "E153" -> "E168"
      [] l = "E168" -> "E173"   [] l = "E173" -> "E157"   [] l = "E157" -> "E177"
      [] l = "E177" -> "E182"   [] l = "E182" -> "E183"   [] l = "E183" -> "E186a"
      [] l = "E186a" -> "E186b" [] l = "E186b" -> "E186c" [] l = "E186c" -> "E190"
      [] l = "E190" -> "E191"   [] l = "E191" -> "E192a"  [] l = "E192a" -> "E192b"
      [] l = "E192b" -> "E193"  [] l = "E193" -> "E210"   [] l = "E195" -> "E210"
      [] l = "E199" -> "E204"   [] l = "E204" -> "E205"   [] l = "E205" -> "E210"
      [] l = "E207" -> "E210"   [] l = "E210" -> "E220"   [] l = "E213" -> "E216"
      [] l = "E216" -> "E220"   [] l = "E220" -> "E221"   [] l = "E221" -> "E222"
      [] l = "E222" -> "end"

\* (variant: the session is closed before the agent runs)
AgentSuccCloseEarly(l) ==
    CASE l = "A64" -> "A86"     [] l = "A86" -> "A97"     [] l = "A97" -> "A90"
      [] l = "A90" -> "A93"     [] l = "A93" -> "A98"     [] l = "A98" -> "end"

\* The statement that follows l in agent_example.py when l completes normally.
AgentSucc(l) ==
    CASE l = "A64" -> "A86"     [] l = "A86" -> "A90"     [] l = "A90" -> "A93"
      [] l = "A93" -> "A97"     [] l = "A97" -> "A98"     [] l = "A98" -> "end"

Succ(l) == IF l \in AgentLabels THEN AgentSucc(l) ELSE ExampleSucc(l)

\* Where control goes when the statement at l raises: the except clause that
\* guards it, or "exit" when the exception leaves main().
\* (variant: a failed init() is swallowed and the script carries on)
HandlerInitSwallowed(l) ==
    CASE l \in {"E110", "E115"} -> "E124"
      [] l = "E204" -> "E207"
      [] l \in {"E67", "A64"} -> Succ(l)
      [] l \in ExampleLabels \ {"E213", "E216", "E220", "E221", "E222"} -> "E213"
      [] OTHER -> "exit"
\* (variant: no inner try around the parsing of lines 110-121)
HandlerParseUncaught(l) ==
    CASE l = "E204" -> "E207"
      [] l \in ExampleLabels \ {"E213", "E216", "E220", "E221", "E222"} -> "E213"
      [] OTHER -> "exit"
\* (variant: no inner try around the act of line 204)
HandlerActUnguarded(l) ==
    CASE l \in {"E110", "E115"} -> "E124"
      [] l \in ExampleLabels \ {"E213", "E216", "E220", "E221", "E222"} -> "E213"
      [] OTHER -> "exit"
Handler(l) ==
    CASE l \in {"E110", "E115"} -> "E124"
      [] l = "E204" -> "E207"
      [] l \in ExampleLabels \ {"E213", "E216", "E220", "E221", "E222"} -> "E213"
      [] OTHER -> "exit"

\* Names bound at module level of example.py when main() is called.
ModuleGlobals ==
    { "asyncio", "logging", "os", "Console", "Panel", "Theme", "BaseModel",
      "Field", "HttpUrl", "load_dotenv", "time", "StagehandConfig", "Stagehand",
      "configure_logging", "ObserveOptions", "ActOptions", "ExtractOptions",
      "get_accessibility_tree", "get_xpath_by_resolved_object_id", "console",
      "Company", "Companies", "ElementAction", "main" }


----------------------------------------------------------------------------
(* The values the collaborators hand back.                                 *)

RECURSIVE SeqsUpTo(_, _)
SeqsUpTo(S, n) ==
    IF n = 0 THEN { <<>> }
    ELSE LET shorter == SeqsUpTo(S, n - 1)
         IN  shorter \cup { Append(q, x) : q \in { r \in shorter : Len(r) = n - 1 }, x \in S }

\* One entry of a raw extraction: what is under "name" and under "url".
RawEntries == [ name : {"str", "missing"}, url : {"http", "digits"} ]

\* class Company: name is a required str, url a required HttpUrl.
CompanyValid(c) == c.name = "str" /\ c.url = "http"

\* What page.extract may return: a Companies instance, or a raw mapping with or
\* without the key "companies".
ExtractResults ==
    { [ type |-> "Companies", keys |-> {"companies"}, companies |-> cs ] :
        cs \in SeqsUpTo({ c \in RawEntries : CompanyValid(c) }, MaxCompanies) }
    \cup
    { [ type |-> "dict", keys |-> ks, companies |-> cs ] :
        ks \in { {"companies"} }, cs \in SeqsUpTo(RawEntries, MaxCompanies) }
    \cup
    { [ type |-> "dict", keys |-> {}, companies |-> <<>> ] }

\* isinstance(extract_result, Companies)
IsCompanies(x) == x.type = "Companies"

\* Companies.model_validate(x) succeeds: the list is there and every entry is a
\* Company.
Validates(x) ==
    /\ "companies" \in x.keys
    /\ \A i \in 1..Len(x.companies) : CompanyValid(x.companies[i])

\* Companies.model_validate(x), when it succeeds.
model_validate(x) ==
    [ type |-> "Companies", keys |-> {"companies"}, companies |-> x.companies ]

\* The content of the LLM's message: a JSON object with the fields of
\* ElementAction, or one that lacks the required id.
Responses ==
    { [ type |-> "response", fields |-> {"action", "id", "arguments"},
        action |-> "fill", id |-> n, arguments |-> as ] :
        n \in 1..MaxNodeId, as \in SeqsUpTo({"Hello"}, MaxArgs) }
    \cup
    { [ type |-> "response", fields |-> {"action", "arguments"},
        action |-> "fill", id |-> 0, arguments |-> <<>> ] }

\* class ElementAction: action, id and arguments are all required.
WellFormed(r) == r.fields = {"action", "id", "arguments"}

\* ElementAction.model_validate_json(content), when it succeeds.
model_validate_json(r) ==
    [ type |-> "ElementAction", action |-> r.action, id |-> r.id,
      arguments |-> r.arguments ]

\* What DOM.resolveNode answers for a backend node: a mapping with an "object"
\* entry, or one without.
ResolveResults(id) ==
    { [ type |-> "dict", keys |-> {"object"}, object |-> [ type |-> "dict", objectId |-> id ] ],
      [ type |-> "dict", keys |-> {},         object |-> None ] }

\* result.get("object")
GetObject(r) == IF "object" \in r.keys THEN r.object ELSE None

\* What get_xpath_by_resolved_object_id answers: an XPath, or none.
XPaths == { "", "/html/body/form/input" }

\* The values the operation at l may return.
Returns(l) ==
    CASE l = "E67"   -> BOOLEAN
      [] l = "E78"   -> { [ type |-> "tree", page |-> "page", ver |-> pageVer["page"] ] }
      [] l = "E146"  -> { [ type |-> "tree", page |-> "new_page", ver |-> pageVer["new_page"] ] }
      [] l = "E98"   -> ExtractResults
      [] l = "E157"  -> Responses
      [] l = "E182"  -> ResolveResults(action.id)
      [] l = "E186c" -> XPaths
      [] OTHER       -> { None }

\* The arguments an operation is issued with, where a claim speaks of them.
IssueArg(l) ==
    CASE l = "E157"  -> << "ElementAction" >>
      [] l = "E182"  -> << "DOM.resolveNode", action.id >>
      [] l = "E186c" -> << object_info.objectId >>
      [] l = "E191"  -> << xpath >>
      [] l = "E192b" -> << xpath, action.arguments[1] >>
      [] OTHER       -> << >>

\* The statements that read tree, or act on an identifier taken from it.
UsesTree(l) == l \in {"E115", "E168", "E182", "E191", "E192b"}

TreeUse(l) ==
    [ at |-> l, page |-> tree.page, ver |-> tree.ver, now |-> pageVer[tree.page] ]

----------------------------------------------------------------------------
(* Control flow.                                                           *)

ctl == << pc, exc, thrown, outcome, raised, context >>
data == << tree, extract_result, companies_data, response, action, result,
           object_info, xpath >>

Goto(l) == pc' = l /\ UNCHANGED << exc, thrown, outcome, raised, context >>

\* An exception e raised by the statement at pc: it goes to the except clause
\* guarding the statement, or leaves main() with the exception that was being
\* propagated as its __context__.
Throw(e) ==
    /\ thrown' = Append(thrown, e)
    /\ IF Handler(pc) = "exit"
       THEN /\ pc' = "end"
            /\ outcome' = "raised"
            /\ raised' = e
            /\ context' = exc
            /\ exc' = exc
       ELSE /\ pc' = Handler(pc)
            /\ exc' = e
            /\ UNCHANGED << outcome, raised, context >>

Exception(t, l) == [ type |-> t, at |-> l ]

Event(l, e, a) == [ at |-> l, ev |-> e, arg |-> a ]

Msg(m) == << m, 0 >>


----------------------------------------------------------------------------
(* The state when main() has constructed the Stagehand client (example.py  *)
(* line 63, agent_example.py line 60).                                     *)

InitCommon ==
    /\ script \in {"example", "agent"}
    /\ llm = FALSE
    /\ pc = IF script = "example" THEN "E67" ELSE "A64"
    /\ waiting = FALSE
    /\ outstanding = {}
    /\ trace = << >>
    /\ printed = {}
    /\ pageVer = [ p \in {"page", "new_page"} |-> 0 ]
    /\ tree = None
    /\ treeUses = {}
    /\ extract_result = None
    /\ companies_data = None
    /\ response = None
    /\ action = None
    /\ result = None
    /\ object_info = None
    /\ xpath = ""
    /\ exc = None
    /\ thrown = << >>
    /\ bodyExc = None
    /\ outcome = "running"
    /\ raised = None
    /\ context = None

\* The scripts run as they are: model_name is bound nowhere in example.py.
Init == InitCommon /\ globals = ModuleGlobals

\* main() called by a module that imported example and may have bound
\* example.model_name: the only runs in which lines 177-195 execute.
InitWorkflow ==
    InitCommon /\ globals \in { ModuleGlobals, ModuleGlobals \cup {"model_name"} }

----------------------------------------------------------------------------
(* Collaborator operations.                                                *)

\* The script calls the operation at pc.
Issue ==
    /\ outcome = "running"
    /\ pc # "end"
    /\ IsOp(pc)
    /\ ~waiting
    /\ outstanding' = outstanding \cup {pc}
    /\ trace' = Append(trace, Event(pc, "issue", IssueArg(pc)))
    /\ treeUses' = IF UsesTree(pc) THEN treeUses \cup { TreeUse(pc) } ELSE treeUses
    /\ pageVer' = IF Mutates(pc) THEN [ pageVer EXCEPT ![Target(pc)] = @ + 1 ]
                  ELSE pageVer
    /\ IF Blocks(pc)
       THEN waiting' = TRUE /\ pc' = pc
       ELSE waiting' = FALSE /\ pc' = Succ(pc)
    /\ UNCHANGED << script, globals, llm, printed, data, exc, thrown, bodyExc,
                    outcome, raised, context >>

\* The operation the script waits for returns v, which the statement assigns.
Return ==
    /\ outcome = "running"
    /\ waiting
    /\ pc \in outstanding
    /\ \E v \in Returns(pc) :
         /\ llm' = IF pc = "E67" THEN v ELSE llm
         /\ tree' = IF pc \in {"E78", "E146"} THEN v ELSE tree
         /\ extract_result' = IF pc = "E98" THEN v ELSE extract_result
         /\ response' = IF pc = "E157" THEN v ELSE response
         /\ result' = IF pc = "E182" THEN v ELSE result
         /\ xpath' = IF pc = "E186c" THEN v ELSE xpath
    /\ outstanding' = outstanding \ {pc}
    /\ trace' = Append(trace, Event(pc, "return", << >>))
    /\ waiting' = FALSE
    /\ Goto(Succ(pc))
    /\ UNCHANGED << script, globals, printed, pageVer, treeUses,
                    companies_data, action, object_info, bodyExc >>

\* The operation the script waits for raises.
Raise ==
    /\ outcome = "running"
    /\ waiting
    /\ pc \in outstanding
    /\ outstanding' = outstanding \ {pc}
    /\ trace' = Append(trace, Event(pc, "raise", << >>))
    /\ waiting' = FALSE
    /\ Throw(Exception("OpError", pc))
    /\ UNCHANGED << script, globals, llm, printed, pageVer, treeUses, data,
                    bodyExc >>

----------------------------------------------------------------------------
(* Local statements.                                                       *)

\* A statement that prints msgs and goes on to l.
Say(msgs, l) ==
    /\ printed' = printed \cup msgs
    /\ Goto(l)
    /\ UNCHANGED << treeUses, data, bodyExc >>

\* A statement that raises an exception of type t.
Fail(t) ==
    /\ Throw(Exception(t, pc))
    /\ UNCHANGED << printed, treeUses, data, bodyExc >>

\* Line 110: the extract result is taken as it is or validated into Companies.
ParseExtract ==
    IF IsCompanies(extract_result) \/ Validates(extract_result)
    THEN /\ companies_data' = IF IsCompanies(extract_result) THEN extract_result
                              ELSE model_validate(extract_result)
         /\ printed' = printed \cup { Msg("Successfully parsed extract result into Companies model") }
         /\ Goto("E115")
         /\ UNCHANGED << tree, extract_result, response, action, result,
                         object_info, xpath, treeUses, bodyExc >>
    ELSE Fail("ValidationError")

\* Lines 114-121: tree's idToUrl is read; a validated url is an HttpUrl, never a
\* str of digits, so no url is replaced.
ResolveUrls ==
    /\ treeUses' = treeUses \cup { TreeUse(pc) }
    /\ Goto("E127")
    /\ UNCHANGED << printed, data, bodyExc >>

\* Lines 123-125: the inner except clause.
ParseFailed ==
    /\ printed' = printed \cup { Msg("Failed to parse extract result"),
                                 Msg("Raw extract result") }
    /\ pc' = "E127"
    /\ exc' = None
    /\ UNCHANGED << thrown, outcome, raised, context, treeUses, data, bodyExc >>

\* Lines 127-132.
ListCompanies ==
    IF companies_data # None
    THEN Say({ Msg("Extracted Companies") }
             \cup { << "company", i >> : i \in 1..Len(companies_data.companies) },
             "E135")
    ELSE Say({ Msg("Extracted Companies"),
               Msg("No companies were found in the extraction result") }, "E135")

\* Line 153.
LLMBranch ==
    IF llm
    THEN Say({ Msg("LLM client available - using direct LLM call") }, "E168")
    ELSE Say({ Msg("LLM client not available in BROWSERBASE mode - skipping direct LLM test") },
             "E199")

\* Line 168: the prompt is built from tree's simplified text.
BuildPrompt ==
    /\ treeUses' = treeUses \cup { TreeUse(pc) }
    /\ Goto("E173")
    /\ UNCHANGED << printed, data, bodyExc >>

\* Line 173: the argument model=model_name is evaluated.
LookupModelName ==
    IF "model_name" \in globals THEN Say({}, "E157") ELSE Fail("NameError")

\* Line 177.
ValidateAction ==
    IF WellFormed(response)
    THEN /\ action' = model_validate_json(response)
         /\ printed' = printed \cup { Msg("LLM identified element ID") }
         /\ Goto("E182")
         /\ UNCHANGED << tree, extract_result, companies_data, response, result,
                         object_info, xpath, treeUses, bodyExc >>
    ELSE Fail("ValidationError")

\* Line 183.
GetObjectInfo ==
    /\ object_info' = GetObject(result)
    /\ Goto("E186a")
    /\ UNCHANGED << tree, extract_result, companies_data, response, action,
                    result, xpath, printed, treeUses, bodyExc >>

\* Line 186, second argument: object_info["objectId"].
SubscriptObjectInfo ==
    IF object_info = None THEN Fail("TypeError") ELSE Say({}, "E186c")

\* Line 190.
XPathBranch ==
    IF xpath # ""
    THEN Say({ Msg("Retrieved XPath") }, "E191")
    ELSE Say({ Msg("Retrieved XPath") }, "E195")

\* Line 192, the argument of fill: action.arguments[0].
FirstArgument ==
    IF Len(action.arguments) = 0 THEN Fail("IndexError") ELSE Say({}, "E192b")

\* Lines 206-207: the except clause of the guarded act.
ActFailed ==
    /\ printed' = printed \cup { Msg("Could not fill search bar") }
    /\ pc' = "E210"
    /\ exc' = None
    /\ UNCHANGED << thrown, outcome, raised, context, treeUses, data, bodyExc >>

\* Lines 212-215: the catch-all logs the exception.
CatchAll ==
    /\ printed' = printed \cup { Msg("Error during testing") }
    /\ bodyExc' = exc
    /\ Goto("E216")
    /\ UNCHANGED << treeUses, data >>

\* (variant: line 216 does not re-raise, so the finally block ends normally)
EndFinallySwallows ==
    /\ printed' = printed \cup { Msg("Stagehand async client closed") }
    /\ pc' = "end"
    /\ outcome' = "returned"
    /\ raised' = None
    /\ UNCHANGED << exc, thrown, context, treeUses, data, bodyExc >>

\* Line 222 and the end of the finally block: the exception that was being
\* propagated, if any, leaves main(); otherwise main() returns.
EndFinally ==
    /\ printed' = printed \cup { Msg("Stagehand async client closed") }
    /\ pc' = "end"
    /\ outcome' = IF exc # None THEN "raised" ELSE "returned"
    /\ raised' = exc
    /\ UNCHANGED << exc, thrown, context, treeUses, data, bodyExc >>

\* agent_example.py lines 98-99: main() returns.
AgentEnd ==
    /\ printed' = printed \cup { Msg("Session closed successfully!") }
    /\ pc' = "end"
    /\ outcome' = "returned"
    /\ UNCHANGED << exc, thrown, raised, context, treeUses, data, bodyExc >>

\* The local statement at l.
Statement(l) ==
    CASE l = "E75"   -> Say({}, "E78")
      [] l = "E110"  -> ParseExtract
      [] l = "E115"  -> ResolveUrls
      [] l = "E124"  -> ParseFailed
      [] l = "E127"  -> ListCompanies
      [] l = "E153"  -> LLMBranch
      [] l = "E168"  -> BuildPrompt
      [] l = "E173"  -> LookupModelName
      [] l = "E177"  -> ValidateAction
      [] l = "E183"  -> GetObjectInfo
      [] l = "E186b" -> SubscriptObjectInfo
      [] l = "E190"  -> XPathBranch
      [] l = "E192a" -> FirstArgument
      [] l = "E193"  -> Say({ Msg("Filled search bar with 'Hello'") }, "E210")
      [] l = "E195"  -> Say({ Msg("No xpath found") }, "E210")
      [] l = "E205"  -> Say({ Msg("Filled search bar using act()") }, "E210")
      [] l = "E207"  -> ActFailed
      [] l = "E210"  -> Say({ Msg("All tests completed successfully!") }, "E220")
      [] l = "E213"  -> CatchAll
      [] l = "E216"  -> Say({}, "E220")
      [] l = "E220"  -> Say({}, "E221")
      [] l = "E222"  -> EndFinally
      [] l = "A93"   -> Say({ Msg("Agent execution result") }, Succ(l))
      [] l = "A98"   -> AgentEnd

\* The script executes the local statement at pc.
Step ==
    /\ outcome = "running"
    /\ pc # "end"
    /\ ~IsOp(pc)
    /\ ~waiting
    /\ trace' = Append(trace, Event(pc, "step", << >>))
    /\ Statement(pc)
    /\ UNCHANGED << script, globals, llm, waiting, outstanding, pageVer >>

Next == Issue \/ Return \/ Raise \/ Step

Spec == Init /\ [][Next]_vars

SpecWorkflow == InitWorkflow /\ [][Next]_vars


----------------------------------------------------------------------------
(* Reading the history.                                                    *)

Ended == outcome # "running"

IssuedAt(i) == trace[i].ev = "issue"

\* The operation at l has been issued / has returned / has raised.
Issued(l) == \E i \in DOMAIN trace : trace[i].at = l /\ trace[i].ev = "issue"
Returned(l) == \E i \in DOMAIN trace : trace[i].at = l /\ trace[i].ev = "return"
Failed(l) == \E i \in DOMAIN trace : trace[i].at = l /\ trace[i].ev = "raise"
Stepped(l) == \E i \in DOMAIN trace : trace[i].at = l /\ trace[i].ev = "step"

\* No collaborator operation has raised.
NoOpRaised == \A i \in DOMAIN trace : trace[i].ev # "raise"

CloseLabels == {"E221", "A97"}
InitLabels == {"E67", "A64"}
CloseIssued == \E l \in CloseLabels : Issued(l)

----------------------------------------------------------------------------
\* C1: in both scripts, whatever step of the body succeeds or raises, close()
\* has been invoked by the time main() ends.
C1_CloseOnEveryPath == Ended => CloseIssued

\* Resolution came back empty: no "object" entry, or no XPath.
ResolvedNothing ==
    \/ Stepped("E183") /\ object_info = None
    \/ Returned("E186c") /\ xpath = ""

C4_TreeCapturedImmediatelyPrior == \A u \in treeUses : u.now = u.ver

\* A click and then a fill with arguments[0] were issued on the XPath locator.
ClickThenFill ==
    \E i, j \in DOMAIN trace :
        /\ i < j
        /\ trace[i] = Event("E191", "issue", << xpath >>)
        /\ trace[j].at = "E192b" /\ trace[j].ev = "issue"
        /\ trace[j].arg = << xpath, action.arguments[1] >>

\* C5: with the LLM client available and no collaborator call raising, a run that
\* has ended has invoked the LLM with the ElementAction schema, passed its id as
\* backendNodeId to DOM.resolveNode, converted the handle to an XPath and, for a
\* non-empty XPath, clicked and then filled arguments[0] on that XPath.
C5_WorkflowRunsInOrder ==
    (script = "example" /\ Ended /\ llm /\ NoOpRaised)
        => /\ \E i \in DOMAIN trace : trace[i] = Event("E157", "issue", << "ElementAction" >>)
           /\ \E i \in DOMAIN trace :
                trace[i] = Event("E182", "issue", << "DOM.resolveNode", action.id >>)
           /\ Returned("E186c")
           /\ xpath # "" => ClickThenFill


\* C3: once the extraction result has been parsed and listed: a result that is a
\* Companies instance or validates into one has every company listed; any other
\* result has the parse failure logged, the raw result printed and "No companies
\* were found" printed, with nothing reaching the catch-all; and in both cases
\* the run goes on to the XPath click of line 135.
C3_ExtractDegrades ==
    /\ Stepped("E127") =>
         IF IsCompanies(extract_result) \/ Validates(extract_result)
         THEN /\ \A k \in 1..Len(extract_result.companies) : << "company", k >> \in printed
              /\ Msg("No companies were found in the extraction result") \notin printed
         ELSE /\ Msg("Failed to parse extract result") \in printed
              /\ Msg("Raw extract result") \in printed
              /\ Msg("No companies were found in the extraction result") \in printed
              /\ \A k \in 1..MaxCompanies + 1 : << "company", k >> \notin printed
    /\ Returned("E98") =>
         \/ pc \in {"E110", "E115", "E124", "E127"}
         \/ pc = "E135" /\ bodyExc = None
         \/ Issued("E135")
C3_Witness ==
    /\ Returned("E98")
    /\ ~IsCompanies(extract_result) /\ ~Validates(extract_result)
    /\ Returned("E141")

\* The statements of example.py whose exceptions reach the catch-all of line
\* 212: the guarded body (lines 66-210) but for the statements inside the two
\* inner try blocks (lines 110-121 and 204).
CatchAllGuarded ==
    ExampleLabels \ {"E110", "E115", "E204", "E213", "E216", "E220", "E221", "E222"}

CloseError == Exception("OpError", "E221")

\* C6 as stated: every exception of the guarded body is logged by the
\* catch-all, the delay and close are attempted, and that same exception leaves
\* main(), whether or not close succeeds.
C6_SameExceptionReRaised ==
    \A i \in DOMAIN thrown :
        (Ended /\ thrown[i].at \in CatchAllGuarded)
            => /\ Msg("Error during testing") \in printed
               /\ bodyExc = thrown[i]
               /\ Stepped("E220") /\ Issued("E221")
               /\ outcome = "raised"
               /\ raised = thrown[i]

\* C6 as amended: every exception that reaches the catch-all is logged, the
\* delay and close are attempted, and main() ends by raising: that same
\* exception when close returns, and close's exception, with that one as its
\* context, when close raises.
C6_ReRaisedUnlessCloseRaises ==
    \A i \in DOMAIN thrown :
        (Ended /\ thrown[i].at \in CatchAllGuarded)
            => /\ Msg("Error during testing") \in printed
               /\ bodyExc = thrown[i]
               /\ Stepped("E220") /\ Issued("E221")
               /\ outcome = "raised"
               /\ IF Failed("E221")
                  THEN raised = CloseError /\ context = thrown[i]
                  ELSE raised = thrown[i]
C6_Witness ==
    /\ Ended /\ Failed("E221")
    /\ bodyExc # None /\ bodyExc.at \in CatchAllGuarded
    /\ context = bodyExc

\* The operations on the session and its pages: everything but init and close.
SessionOps == { l \in ExampleLabels \cup AgentLabels :
                  IsOp(l) /\ OpName(l) \notin {"init", "close"} }

C8_OneOutstanding ==
    /\ Cardinality(outstanding) <= 1
    /\ \A i \in DOMAIN trace :
         (IssuedAt(i) /\ i < Len(trace))
            => /\ trace[i + 1].at = trace[i].at
               /\ trace[i + 1].ev \in {"return", "raise"}
C8_Witness == outstanding = {"E150"} /\ Returned("E146")

\* The catch-all, the delay and close (lines 212-222).
CleanupLabels == {"E213", "E216", "E220", "E221", "E222"}

OpsInsideSession ==
    \A i \in DOMAIN trace :
        (IssuedAt(i) /\ trace[i].at \in SessionOps)
            => /\ \E j \in 1..(i - 1) : trace[j].at \in InitLabels /\ trace[j].ev = "return"
               /\ \A j \in 1..(i - 1) : ~(IssuedAt(j) /\ trace[j].at \in CloseLabels)

\* close() is invoked at most once and nothing is issued after it.
CloseLast ==
    \A i \in DOMAIN trace :
        (IssuedAt(i) /\ trace[i].at \in CloseLabels)
            => \A j \in DOMAIN trace : (j # i /\ IssuedAt(j)) => j < i /\ trace[j].at \notin CloseLabels

\* C10 as stated: every operation other than init and close is issued after
\* init() has returned and before close() is invoked; close() is invoked at most
\* once, only after init() has returned, and nothing is issued after it.
C10_LifecycleAsStated ==
    /\ OpsInsideSession
    /\ CloseLast
    /\ \A i \in DOMAIN trace :
         (IssuedAt(i) /\ trace[i].at \in CloseLabels)
            => \E j \in 1..(i - 1) : trace[j].at \in InitLabels /\ trace[j].ev = "return"

\* C10 as amended: the same, but close() is invoked once init() has been
\* attempted, whether it returned or raised.
C10_Lifecycle ==
    /\ OpsInsideSession
    /\ CloseLast
    /\ \A i \in DOMAIN trace :
         (IssuedAt(i) /\ trace[i].at \in CloseLabels)
            => \E j \in 1..(i - 1) :
                 trace[j].at \in InitLabels /\ trace[j].ev \in {"return", "raise"}
C10_Witness == Failed("E67") /\ Issued("E221") /\ Ended

====
